---- MODULE Spec2Model ----
(***************************************************************************)
(* Notenpfad web client: the ChatBot page (src/unnamed/part_000) and the   *)
(* GradeHistory page (src/notenpfad/frontend/src/pages/GradeHistory.jsx),  *)
(* together with the part of the backend they talk to.  The backend is not *)
(* among the sources; what is needed of it is taken from spec.md.          *)
(***************************************************************************)
EXTENDS Integers, Sequences, FiniteSets, Bags, TLC

VARIABLES
    \* ---- ChatBot component state (part_000:6-10)
    messages,       \* useState: sequence of [sender, text]
    input,          \* useState: content of the text field, a sequence of characters
    isLoading,      \* useState: the "Schreibt..." indicator
    chatReqs,       \* calls of handleSend suspended at `await fetch(...)`, oldest first
    chatSends,      \* number of handleSend calls that issued a request so far
    \* ---- GradeHistory component state (GradeHistory.jsx:6-9)
    studentId,      \* the studentId prop of the current render
    grades,         \* useState: the list handed to GradeList
    subjects,       \* useState
    loading,        \* useState
    fetches,        \* bag of the fetchData calls suspended at `await Promise.all`
    deletes,        \* bag of the handleDeleteGrade calls suspended at `await fetch`
    \* ---- the browser
    page,           \* which of the two pages is mounted
    accessToken,    \* localStorage 'access_token'
    \* ---- the backend (Entity Store)
    srvGrades,      \* Grade records in insertion order
    nextGradeId,    \* id the next created Grade gets
    \* ---- history
    failed,         \* some fetchData or handleDeleteGrade call has ended in an error
    events          \* user and environment events on the history page so far

chatVars == <<messages, input, isLoading, chatReqs, chatSends>>

historyVars == <<studentId, grades, subjects, loading, fetches, deletes>>

serverVars == <<srvGrades, nextGradeId>>

vars == <<chatVars, historyVars, page, accessToken, serverVars, failed, events>>

\* What the actions of the ChatBot page leave alone.
chatFrame == <<historyVars, page, accessToken, serverVars, failed, events>>

(***************************************************************************)
(* Bounds of the model.                                                    *)
(***************************************************************************)
MaxSends == 2       \* chat requests issued in one run
MaxGrades == 3      \* Grade records created in one run
MaxInFlight == 2    \* calls of fetchData and handleDeleteGrade suspended at once
MaxEvents == 4      \* clicks, prop changes, logins and grade creations while the
                    \* history page is watched

(***************************************************************************)
(* JavaScript values that end up in a message text.                        *)
(***************************************************************************)
JsString(chars) == [type |-> "string", chars |-> chars]

JsUndefined == [type |-> "undefined", chars |-> <<>>]

\* part_000:7 and :51: the two fixed texts, without their closing pictograph.
Greeting == JsString(<<"Hallo! Ich bin dein Lern-Coach. Wie kann ich dir heute helfen?">>)

Apology == JsString(<<"Entschuldigung, ich habe Verbindungsprobleme.">>)

\* What the chat backend may put into the `response` field of a 200 answer.
BackendAnswers == {JsString(<<"Lerne jeden Tag 20 Minuten.">>)}

\* What the backend puts into the `detail` field of an error answer.
BackendErrorDetail == JsString(<<"Internal error: chat backend unavailable">>)

\* Texts a user may type: blank ones and ones with something in them.
Inputs == {<<>>, <<" ", " ">>, <<"a">>, <<" ", "b", " ">>}

\* String.prototype.trim: drop leading and trailing white space.
RECURSIVE TrimStart(_)
TrimStart(s) ==
    IF s = <<>> THEN s
    ELSE IF Head(s) = " " THEN TrimStart(Tail(s)) ELSE s

RECURSIVE TrimEnd(_)
TrimEnd(s) ==
    IF s = <<>> THEN s
    ELSE IF s[Len(s)] = " " THEN TrimEnd(SubSeq(s, 1, Len(s) - 1)) ELSE s

Trim(s) == TrimEnd(TrimStart(s))

\* `!input.trim()`: the empty string is the only falsy string.
IsBlank(s) == Trim(s) = <<>>

RemoveAt(s, i) == SubSeq(s, 1, i - 1) \o SubSeq(s, i + 1, Len(s))

(***************************************************************************)
(* The chat request and the answers it can get.                            *)
(***************************************************************************)
\* The request handleSend builds: POST /chat with a Content-Type header only.
ChatRequest(text) ==
    [method |-> "POST", path |-> "/chat",
     headers |-> [ContentType |-> "application/json"],
     body |-> text,
     res |-> [kind |-> "pending"]]

\* Outcomes of `fetch`: the promise rejects (network failure), or it resolves
\* with a response whose body is JSON with a `response` field (200), JSON
\* without one (an error answer such as {"detail": ...}), or not JSON at all.
ChatOutcomes ==
    {[kind |-> "rejected"]}
    \cup {[kind |-> "json", ok |-> TRUE, hasResponse |-> TRUE, response |-> a, detail |-> JsUndefined]
            : a \in BackendAnswers}
    \cup {[kind |-> "json", ok |-> FALSE, hasResponse |-> FALSE, response |-> JsUndefined,
           detail |-> BackendErrorDetail]}
    \cup {[kind |-> "notjson", ok |-> FALSE]}

\* part_000:46-51: the bot message the continuation appends.  res.json()
\* throws on a body that is not JSON; a rejected fetch throws at the await;
\* otherwise the text is data.response, whatever the status was.
BotReply(res) ==
    IF res.kind \in {"rejected", "notjson"}
    THEN [sender |-> "bot", text |-> Apology]
    ELSE [sender |-> "bot", text |-> IF res.hasResponse THEN res.response ELSE JsUndefined]

(***************************************************************************)
(* The session token and the Authorization header.                         *)
(***************************************************************************)
JsNull == [type |-> "null", chars |-> <<>>]

AdminToken == JsString(<<"tok-admin">>)

StudentAToken == JsString(<<"tok-student-A">>)

\* What localStorage.getItem('access_token') can return: null when no token
\* is stored, else the stored string.
StoredTokens == {JsNull, AdminToken, StudentAToken}

\* Template literal conversion `${v}`: null becomes the text "null".
TemplateString(v) == IF v.type = "null" THEN <<"null">> ELSE v.chars

\* GradeHistory.jsx:18 and :45: { 'Authorization': `Bearer ${token}` }
AuthHeaders(token) == [Authorization |-> <<"Bearer">> \o TemplateString(token)]

(***************************************************************************)
(* The backend, from spec.md sections 3, 4 and 6.                          *)
(***************************************************************************)
Students == {"A", "B"}

SubjectCatalog ==
    <<[id |-> "Math", weight |-> 2], [id |-> "Art", weight |-> 1]>>

SubjectIds == {SubjectCatalog[k].id : k \in 1..Len(SubjectCatalog)}

ScaleMin == 1

ScaleMax == 6

NoClaims == [valid |-> FALSE, role |-> "none", studentId |-> "none"]

\* Auth Gate: validateToken.  Only a well-formed, unexpired, signed token
\* in an Authorization header yields claims.
ValidateToken(headers) ==
    IF "Authorization" \notin DOMAIN headers THEN NoClaims
    ELSE LET h == headers.Authorization
         IN  IF Len(h) # 2 \/ h[1] # "Bearer" THEN NoClaims
             ELSE IF h[2] = "tok-admin"
             THEN [valid |-> TRUE, role |-> "admin", studentId |-> "none"]
             ELSE IF h[2] = "tok-student-A"
             THEN [valid |-> TRUE, role |-> "student", studentId |-> "A"]
             ELSE NoClaims

JsonArray(items) == [isArray |-> TRUE, items |-> items, detail |-> "none"]

ErrorBody(kind) == [isArray |-> FALSE, items |-> <<>>, detail |-> kind]

\* States of a fetch promise: pending, rejected, or resolved with a response.
Pending == [kind |-> "pending", status |-> 0, body |-> ErrorBody("none")]

Rejected == [kind |-> "rejected", status |-> 0, body |-> ErrorBody("none")]

Response(status, body) == [kind |-> "response", status |-> status, body |-> body]

\* Whether the caller may act on the grades of student sid.
Authorized(claims, sid) == claims.role = "admin" \/ claims.studentId = sid

\* Entity Store: list(filter by studentId), in insertion order
GradesOf(store, sid) == SelectSeq(store, LAMBDA g : g.studentId = sid)

\* A variant that lets every valid token read every student's grades.
HandleGetGradesAnyStudent(store, headers, sid) ==
    IF ~ValidateToken(headers).valid THEN Response(401, ErrorBody("AuthError"))
    ELSE Response(200, JsonArray(GradesOf(store, sid)))

\* GET /grades?student_id=sid
HandleGetGrades(store, headers, sid) ==
    LET claims == ValidateToken(headers)
    IN  IF ~claims.valid THEN Response(401, ErrorBody("AuthError"))
        ELSE IF ~Authorized(claims, sid) THEN Response(403, ErrorBody("ForbiddenError"))
        ELSE Response(200, JsonArray(GradesOf(store, sid)))

\* GET /subjects
HandleGetSubjects(headers) ==
    IF ~ValidateToken(headers).valid THEN Response(401, ErrorBody("AuthError"))
    ELSE Response(200, JsonArray(SubjectCatalog))

GradeIds(store) == {store[k].id : k \in 1..Len(store)}

GradeById(store, id) == CHOOSE g \in {store[k] : k \in 1..Len(store)} : g.id = id

\* DELETE /grades/{id}: the status of the answer
DeleteStatus(store, headers, id) ==
    LET claims == ValidateToken(headers)
    IN  IF ~claims.valid THEN 401
        ELSE IF id \notin GradeIds(store) THEN 404
        ELSE IF ~Authorized(claims, GradeById(store, id).studentId) THEN 403
        ELSE 200

\* Entity Store: delete(id)
StoreDelete(store, id) == SelectSeq(store, LAMBDA g : g.id # id)

\* Entity Store: createGrade validation
ValidGrade(fields) ==
    /\ fields.studentId \in Students
    /\ fields.subjectId \in SubjectIds
    /\ fields.value >= ScaleMin
    /\ fields.value <= ScaleMax

(***************************************************************************)
(* Dates and the sort of fetchData.                                        *)
(***************************************************************************)
\* new Date("YYYY-MM-DD"): the days since 1970-01-01 of a calendar date; the
\* number of milliseconds is 86400000 times this.
DateValue(d) ==
    LET y   == IF d.m <= 2 THEN d.y - 1 ELSE d.y
        era == y \div 400
        yoe == y - era * 400
        mp  == IF d.m > 2 THEN d.m - 3 ELSE d.m + 9
        doy == (153 * mp + 2) \div 5 + d.d - 1
        doe == yoe * 365 + yoe \div 4 - yoe \div 100 + doy
    IN  era * 146097 + doe - 719468

\* GradeHistory.jsx:29: (a, b) => new Date(b.date) - new Date(a.date), in days
CompareGrades(a, b) == DateValue(b.date) - DateValue(a.date)

\* A variant that is not stable: an element goes in front of its equals.
RECURSIVE InsertSortedUnstable(_, _)
InsertSortedUnstable(sorted, e) ==
    IF sorted = <<>> THEN <<e>>
    ELSE IF CompareGrades(Head(sorted), e) < 0
         THEN <<Head(sorted)>> \o InsertSortedUnstable(Tail(sorted), e)
         ELSE <<e>> \o sorted

\* Array.prototype.sort is stable: an element goes behind every element that
\* does not compare greater than it.
RECURSIVE InsertSorted(_, _)
InsertSorted(sorted, e) ==
    IF sorted = <<>> THEN <<e>>
    ELSE IF CompareGrades(Head(sorted), e) <= 0
         THEN <<Head(sorted)>> \o InsertSorted(Tail(sorted), e)
         ELSE <<e>> \o sorted

RECURSIVE ArraySort(_)
ArraySort(arr) ==
    IF arr = <<>> THEN <<>>
    ELSE InsertSorted(ArraySort(SubSeq(arr, 1, Len(arr) - 1)), arr[Len(arr)])

(***************************************************************************)
(* GradeHistory                                                            *)
(***************************************************************************)
\* GradeHistory.jsx:17-23: the two requests of one fetchData call, which
\* share one headers object
NewFetch(sid, token) ==
    [studentId |-> sid, headers |-> AuthHeaders(token),
     gradesRes |-> Pending, subjRes |-> Pending]

\* A variant that reads the token under a key that holds nothing.
NewDeleteWrongKey(gradeId, sid, token) ==
    [gradeId |-> gradeId, studentId |-> sid, headers |-> AuthHeaders(JsNull),
     res |-> Pending]

\* GradeHistory.jsx:43-46: the DELETE request of one handleDeleteGrade call;
\* studentId is the prop of the render whose handler was called.
NewDelete(gradeId, sid, token) ==
    [gradeId |-> gradeId, studentId |-> sid, headers |-> AuthHeaders(token),
     res |-> Pending]

One(x) == SetToBag({x})

InFlight == BagCardinality(fetches) + BagCardinality(deletes)

\* Promise.all: settled once one request is rejected or both are answered.
FetchSettled(f) ==
    \/ f.gradesRes.kind = "rejected"
    \/ f.subjRes.kind = "rejected"
    \/ (f.gradesRes.kind = "response" /\ f.subjRes.kind = "response")

FetchRejected(f) == f.gradesRes.kind = "rejected" \/ f.subjRes.kind = "rejected"

\* GradeHistory.jsx:25-29: the try block throws when a request was rejected
\* or when gradesData is not an array (it has no sort method).
FetchThrows(f) == FetchRejected(f) \/ ~f.gradesRes.body.isArray

\* The fetch ended in an error: a network failure or an answer other than 200.
FetchErrored(f) ==
    FetchRejected(f) \/ f.gradesRes.status # 200 \/ f.subjRes.status # 200

\* GradeHistory.jsx:64-74: what the card shows
View ==
    IF loading THEN "Laden..."
    ELSE IF Len(grades) = 0 THEN "Keine Noten vorhanden."
    ELSE "GradeList"

\* GradeHistory.jsx:7-13: the first render and its effect
HistoryMounted ==
    /\ page = "history"
    /\ studentId \in Students
    /\ grades = <<>>
    /\ subjects = JsonArray(<<>>)
    /\ loading = TRUE
    /\ fetches = One(NewFetch(studentId, accessToken))
    /\ deletes = EmptyBag
    /\ failed = FALSE
    /\ events = 0

HistoryInit ==
    /\ accessToken \in StoredTokens
    /\ HistoryMounted
    /\ srvGrades = <<>>
    /\ nextGradeId = 1

\* GradeHistory.jsx:11-13: a new studentId prop runs the effect
ChangeStudent(s) ==
    /\ page = "history"
    /\ events < MaxEvents
    /\ events' = events + 1
    /\ s # studentId
    /\ InFlight < MaxInFlight
    /\ studentId' = s
    /\ fetches' = fetches (+) One(NewFetch(s, accessToken))
    /\ UNCHANGED <<grades, subjects, loading, deletes, accessToken, serverVars, failed, chatVars, page>>

\* GradeHistory.jsx:40-46: the user confirms the deletion of the k-th grade shown
HandleDeleteGrade(k) ==
    /\ page = "history"
    /\ events < MaxEvents
    /\ events' = events + 1
    /\ View = "GradeList"
    /\ InFlight < MaxInFlight
    /\ deletes' = deletes (+) One(NewDelete(grades[k].id, studentId, accessToken))
    /\ UNCHANGED <<studentId, grades, subjects, loading, fetches, accessToken, serverVars, failed, chatVars, page>>

\* The backend answers the two requests of fetch f.  The answer to
\* GET /subjects depends on the request's headers alone, so it is taken at
\* the moment GET /grades is answered.
ServeFetch(f) ==
    /\ page = "history"
    /\ f.gradesRes.kind = "pending"
    /\ f.subjRes.kind = "pending"
    /\ fetches' = (fetches (-) One(f)) (+)
                  One([f EXCEPT !.gradesRes = HandleGetGrades(srvGrades, f.headers, f.studentId),
                                !.subjRes = HandleGetSubjects(f.headers)])
    /\ UNCHANGED <<studentId, grades, subjects, loading, deletes, accessToken, serverVars, failed, chatVars, page, events>>

\* A request of fetch f fails in the network: its promise, and with it
\* Promise.all, rejects
FetchNetworkFailure(f) ==
    /\ page = "history"
    /\ ~FetchSettled(f)
    /\ fetches' = (fetches (-) One(f)) (+) One([f EXCEPT !.gradesRes = Rejected])
    /\ UNCHANGED <<studentId, grades, subjects, loading, deletes, accessToken, serverVars, failed, chatVars, page, events>>

\* GradeHistory.jsx:25-37: the rest of fetchData once Promise.all has settled
FetchContinue(f) ==
    /\ page = "history"
    /\ FetchSettled(f)
    /\ IF FetchThrows(f)
       THEN UNCHANGED <<grades, subjects>>
       ELSE /\ grades' = ArraySort(f.gradesRes.body.items)
            /\ subjects' = f.subjRes.body
    /\ loading' = FALSE
    /\ fetches' = fetches (-) One(f)
    /\ failed' = (failed \/ FetchErrored(f))
    /\ UNCHANGED <<studentId, deletes, accessToken, serverVars, chatVars, page, events>>

\* The backend handles the DELETE request of d; the answer reaches the
\* client or is lost on the way back.
ServeDelete(d, delivered) ==
    LET status == DeleteStatus(srvGrades, d.headers, d.gradeId)
    IN  /\ page = "history"
        /\ d.res.kind = "pending"
        /\ srvGrades' = IF status = 200 THEN StoreDelete(srvGrades, d.gradeId) ELSE srvGrades
        /\ deletes' = (deletes (-) One(d)) (+)
                      One([d EXCEPT !.res = IF delivered THEN Response(status, ErrorBody("none"))
                                            ELSE Rejected])
        /\ UNCHANGED <<studentId, grades, subjects, loading, fetches, accessToken, nextGradeId, failed, chatVars, page, events>>

\* The DELETE request of d never reaches the backend
DeleteNetworkFailure(d) ==
    /\ page = "history"
    /\ d.res.kind = "pending"
    /\ deletes' = (deletes (-) One(d)) (+) One([d EXCEPT !.res = Rejected])
    /\ UNCHANGED <<studentId, grades, subjects, loading, fetches, accessToken, serverVars, failed, chatVars, page, events>>

\* GradeHistory.jsx:43-47: the rest of handleDeleteGrade.  A rejected fetch
\* throws out of the handler; any answer, whatever its status, is followed
\* by fetchData() of the render the handler belongs to.
DeleteContinue(d) ==
    /\ page = "history"
    /\ d.res.kind # "pending"
    /\ deletes' = deletes (-) One(d)
    /\ fetches' = IF d.res.kind = "rejected" THEN fetches
                  ELSE fetches (+) One(NewFetch(d.studentId, accessToken))
    /\ failed' = (failed \/ d.res.kind = "rejected" \/ d.res.status # 200)
    /\ UNCHANGED <<studentId, grades, subjects, loading, accessToken, serverVars, chatVars, page, events>>

\* Login or logout replaces the stored token
StorageChange(t) ==
    /\ page = "history"
    /\ events < MaxEvents
    /\ events' = events + 1
    /\ t # accessToken
    /\ accessToken' = t
    /\ UNCHANGED <<historyVars, serverVars, failed, chatVars, page>>

\* POST /grades (issued elsewhere in the client): Entity Store createGrade
CreateGrade(fields) ==
    /\ nextGradeId <= MaxGrades
    /\ ValidGrade(fields)
    /\ srvGrades' = Append(srvGrades, [id |-> nextGradeId] @@ fields)
    /\ nextGradeId' = nextGradeId + 1
    /\ UNCHANGED <<historyVars, accessToken, failed, chatVars, page>>

Dates == {[y |-> 2023, m |-> 12, d |-> 31], [y |-> 2024, m |-> 2, d |-> 29],
          [y |-> 2024, m |-> 3, d |-> 1]}

\* The grades created while the history page is watched
HistoryGradeInputs ==
    {[studentId |-> s, subjectId |-> "Math", value |-> 4, date |-> [y |-> 2024, m |-> 3, d |-> 1]] : s \in Students}

HistoryNext ==
    \/ \E s \in Students : ChangeStudent(s)
    \/ \E k \in 1..Len(grades) : HandleDeleteGrade(k)
    \/ \E f \in BagToSet(fetches) : ServeFetch(f)
    \/ \E f \in BagToSet(fetches) : FetchNetworkFailure(f)
    \/ \E f \in BagToSet(fetches) : FetchContinue(f)
    \/ \E d \in BagToSet(deletes) : \E delivered \in BOOLEAN : ServeDelete(d, delivered)
    \/ \E d \in BagToSet(deletes) : DeleteNetworkFailure(d)
    \/ \E d \in BagToSet(deletes) : DeleteContinue(d)
    \/ \E t \in StoredTokens : StorageChange(t)
    \/ \E fields \in HistoryGradeInputs :
            /\ page = "history"
            /\ events < MaxEvents
            /\ events' = events + 1
            /\ CreateGrade(fields)

(***************************************************************************)
(* ChatBot                                                                 *)
(***************************************************************************)
ChatMounted ==
    /\ messages = <<[sender |-> "bot", text |-> Greeting]>>
    /\ input = <<>>
    /\ isLoading = FALSE
    /\ chatReqs = <<>>
    /\ chatSends = 0

\* The history page is not mounted.
HistoryIdle ==
    /\ studentId = "A"
    /\ accessToken = JsNull
    /\ grades = <<>>
    /\ subjects = JsonArray(<<>>)
    /\ loading = TRUE
    /\ fetches = EmptyBag
    /\ deletes = EmptyBag
    /\ srvGrades = <<>>
    /\ nextGradeId = 1
    /\ failed = FALSE
    /\ events = 0

ChatInit == page = "chat" /\ ChatMounted /\ HistoryIdle

\* part_000:94 onChange
SetInput(v) ==
    /\ page = "chat"
    /\ v # input
    /\ input' = v
    /\ UNCHANGED <<messages, isLoading, chatReqs, chatSends, chatFrame>>

\* part_000:19-45 handleSend up to `await fetch`
HandleSend ==
    /\ page = "chat"
    /\ ~IsBlank(input)
    /\ chatSends < MaxSends
    /\ messages' = Append(messages, [sender |-> "user", text |-> JsString(input)])
    /\ input' = <<>>
    /\ isLoading' = TRUE
    /\ chatReqs' = Append(chatReqs, ChatRequest(input))
    /\ chatSends' = chatSends + 1
    /\ UNCHANGED chatFrame

\* The network and the chat backend settle the fetch of request i.
ChatSettle(i, outcome) ==
    /\ page = "chat"
    /\ chatReqs[i].res.kind = "pending"
    /\ chatReqs' = [chatReqs EXCEPT ![i].res = outcome]
    /\ UNCHANGED <<messages, input, isLoading, chatSends, chatFrame>>

\* part_000:46-54: the continuation of handleSend once its fetch has settled.
ChatContinue(i) ==
    /\ page = "chat"
    /\ chatReqs[i].res.kind # "pending"
    /\ messages' = Append(messages, BotReply(chatReqs[i].res))
    /\ isLoading' = FALSE
    /\ chatReqs' = RemoveAt(chatReqs, i)
    /\ UNCHANGED <<input, chatSends, chatFrame>>

ChatNext ==
    \/ \E v \in Inputs : SetInput(v)
    \/ HandleSend
    \/ \E i \in 1..Len(chatReqs) : \E o \in ChatOutcomes : ChatSettle(i, o)
    \/ \E i \in 1..Len(chatReqs) : ChatContinue(i)

Init == ChatInit \/ (HistoryInit /\ ChatMounted)

Next == ChatNext \/ HistoryNext

\* The client with one of its two pages mounted, and the backend.
Spec == Init /\ [][Next]_vars

\* The ChatBot page alone.
ChatSpec == ChatInit /\ [][ChatNext]_vars

\* The event loop runs the continuation of a settled promise; nothing makes
\* the backend answer.
ChatFairSpec == ChatSpec /\ WF_vars(\E i \in 1..Len(chatReqs) : ChatContinue(i))

(***************************************************************************)
(* One fetchData call against any store: the page has just been mounted,   *)
(* the store holds any grades created before.                              *)
(***************************************************************************)
FetchGradeInputs ==
    {[studentId |-> s, subjectId |-> "Math", value |-> 4, date |-> d]
        : s \in Students, d \in Dates}

\* The stores n successful createGrade calls leave
RECURSIVE StoresOf(_)
StoresOf(n) ==
    IF n = 0 THEN {<<>>}
    ELSE {Append(st, [id |-> n] @@ fields) : st \in StoresOf(n - 1), fields \in FetchGradeInputs}

FetchInit ==
    /\ accessToken \in StoredTokens
    /\ HistoryMounted
    /\ ChatMounted
    /\ \E n \in 0..MaxGrades :
          /\ srvGrades \in StoresOf(n)
          /\ nextGradeId = n + 1

FetchNext ==
    \/ \E f \in BagToSet(fetches) : ServeFetch(f)
    \/ \E f \in BagToSet(fetches) : FetchNetworkFailure(f)
    \/ \E f \in BagToSet(fetches) : FetchContinue(f)

FetchSpec == FetchInit /\ [][FetchNext]_vars

(***************************************************************************)
(* Average Engine, from spec.md section 4.2.  Averages are exact rationals *)
(* [num, den] in lowest terms: nothing is rounded inside the engine.       *)
(***************************************************************************)
RECURSIVE Gcd(_, _)
Gcd(a, b) == IF b = 0 THEN a ELSE Gcd(b, a % b)

Rat(n, d) == LET g == Gcd(n, d) IN [num |-> n \div g, den |-> d \div g]

RatAdd(p, q) == Rat(p.num * q.den + q.num * p.den, p.den * q.den)

RatScale(p, k) == Rat(p.num * k, p.den)

RatDivInt(p, k) == Rat(p.num, p.den * k)

RECURSIVE SumValues(_)
SumValues(gs) == IF gs = <<>> THEN 0 ELSE Head(gs).value + SumValues(Tail(gs))

\* The grades of student sid in one subject
SubjectGrades(store, sid, subj) ==
    SelectSeq(store, LAMBDA g : g.studentId = sid /\ g.subjectId = subj)

\* Per-subject average: the arithmetic mean of the subject's grade values
SubjectAverage(gs) == Rat(SumValues(gs), Len(gs))

\* The running sums of the overall average over the first k subjects of the
\* catalog: a subject without grades adds nothing to either sum.
RECURSIVE WeightedSums(_, _, _)
WeightedSums(store, sid, k) ==
    IF k = 0 THEN [weighted |-> Rat(0, 1), weights |-> 0]
    ELSE LET acc == WeightedSums(store, sid, k - 1)
             gs  == SubjectGrades(store, sid, SubjectCatalog[k].id)
         IN  IF gs = <<>> THEN acc
             ELSE [weighted |-> RatAdd(acc.weighted,
                                       RatScale(SubjectAverage(gs), SubjectCatalog[k].weight)),
                   weights  |-> acc.weights + SubjectCatalog[k].weight]

\* A variant that counts a subject without grades as an average of zero.
OverallAverageCountingEmpty(store, sid) ==
    LET sums == WeightedSums(store, sid, Len(SubjectCatalog))
        all  == SumValues([k \in 1..Len(SubjectCatalog) |-> [value |-> SubjectCatalog[k].weight]])
    IN  IF sums.weights = 0 THEN [defined |-> FALSE, value |-> Rat(0, 1)]
        ELSE [defined |-> TRUE, value |-> RatDivInt(sums.weighted, all)]

\* Overall weighted average of student sid; NoDataError without any grade.
OverallAverage(store, sid) ==
    LET sums == WeightedSums(store, sid, Len(SubjectCatalog))
    IN  IF sums.weights = 0 THEN [defined |-> FALSE, value |-> Rat(0, 1)]
        ELSE [defined |-> TRUE, value |-> RatDivInt(sums.weighted, sums.weights)]

\* DELETE /grades/{id} by a caller allowed to delete it: Entity Store delete
DeleteGrade(id) ==
    /\ id \in GradeIds(srvGrades)
    /\ srvGrades' = StoreDelete(srvGrades, id)
    /\ UNCHANGED <<nextGradeId, historyVars, accessToken, failed, chatVars, page>>

\* The grades the backend is asked to create; 9 is outside the scale.
EngineGradeInputs ==
    {[studentId |-> s, subjectId |-> subj, value |-> v, date |-> [y |-> 2024, m |-> 3, d |-> 1]]
        : s \in Students, subj \in SubjectIds, v \in {3, 4, 5, 9}}

\* The backend alone: no page is mounted.
EngineInit == page = "none" /\ ChatMounted /\ HistoryIdle

EngineNext ==
    \/ \E fields \in EngineGradeInputs : CreateGrade(fields) /\ UNCHANGED events
    \/ \E id \in GradeIds(srvGrades) : DeleteGrade(id) /\ UNCHANGED events

EngineSpec == EngineInit /\ [][EngineNext]_vars

(***************************************************************************)
(* Claims about ChatBot                                                    *)
(***************************************************************************)
BotTexts == {messages[k].text : k \in {j \in 1..Len(messages) : messages[j].sender = "bot"}}

\* C1: whenever the Assistant Bridge call fails, the bot message appended is
\* the fixed apology; no bot message carries text derived from the failure
\* (an error body, an undefined `response` field, an exception message).
\* Stated on the transcript: every bot text is the greeting, the apology or
\* the `response` of a successful answer.
C1_OnlyApologyOnFailure == BotTexts \subseteq ({Greeting, Apology} \cup BackendAnswers)

\* C2: every chat send is eventually abandoned even when the backend never
\* answers: the loading indicator always returns to false.
C2_SendNeverPendingForever == isLoading ~> ~isLoading

\* C9: isLoading is true whenever at least one chat request is in flight and
\* false once none is.
C9_LoadingIffInFlight == isLoading <=> (Len(chatReqs) > 0)

(***************************************************************************)
(* Claims about GradeHistory and the requests it sends                     *)
(***************************************************************************)
\* The views a successful fetch or delete ends in.
SuccessViews == {"Keine Noten vorhanden.", "GradeList"}

\* C3: no error is swallowed: the step in which a fetch or a delete first
\* ends in an error (a network failure, or an answer other than 200) leaves a
\* visible state that is none of the views a successful operation ends in.
C3_ErrorsSurfaced == [][(~failed /\ failed') => (View \notin SuccessViews)']_vars

\* The Authorization header that belongs to the stored token tok.
ExpectedAuthorization(tok) ==
    <<"Bearer", IF tok = JsNull THEN "null" ELSE tok.chars[1]>>

ValidCredentials == {"tok-admin", "tok-student-A"}

\* The requests of the history page that are in flight.
HistoryRequests == BagToSet(fetches) \cup BagToSet(deletes)

C4_Mounted ==
    \A f \in BagToSet(fetches) : f.headers.Authorization = ExpectedAuthorization(accessToken)

C4_AllCarryHeader ==
    /\ \A r \in HistoryRequests :
          /\ "Authorization" \in DOMAIN r.headers
          /\ Len(r.headers.Authorization) = 2
          /\ r.headers.Authorization[1] = "Bearer"
    /\ \A i \in 1..Len(chatReqs) : "Authorization" \notin DOMAIN chatReqs[i].headers

C4_Unauthorized401 ==
    /\ \A f \in BagToSet(fetches) :
          (f.gradesRes.kind = "response" /\ f.headers.Authorization[2] \notin ValidCredentials)
              => (f.gradesRes.status = 401 /\ f.subjRes.status = 401)
    /\ \A d \in BagToSet(deletes) :
          (d.res.kind = "response" /\ d.headers.Authorization[2] \notin ValidCredentials)
              => d.res.status = 401

C4_IssuedWithCurrentToken ==
    /\ \A f \in BagToSet(fetches') :
          (f.gradesRes.kind = "pending" /\ CopiesIn(f, fetches') > CopiesIn(f, fetches))
              => f.headers.Authorization = ExpectedAuthorization(accessToken)
    /\ \A d \in BagToSet(deletes') :
          (d.res.kind = "pending" /\ CopiesIn(d, deletes') > CopiesIn(d, deletes))
              => d.headers.Authorization = ExpectedAuthorization(accessToken)

\* C4: every request to GET /grades, GET /subjects and DELETE /grades/{id}
\* carries "Authorization: Bearer <token>" built from the token localStorage
\* holds at the moment the request is issued; a request whose token is absent
\* or invalid is answered 401; the POST /chat requests are the only ones
\* without the header.
C4_BearerFromSession ==
    /\ C4_Mounted
    /\ [](C4_AllCarryHeader /\ C4_Unauthorized401)
    /\ [][C4_IssuedWithCurrentToken]_vars

\* A request issued while no token was stored has been answered 401, and a
\* later request, issued after a login, carries the new token.
C4_Witness ==
    /\ accessToken = AdminToken
    /\ \E f0, f1 \in BagToSet(fetches) :
          /\ f0.headers.Authorization = <<"Bearer", "null">>
          /\ f0.gradesRes.status = 401
          /\ f1.headers.Authorization = <<"Bearer", "tok-admin">>
          /\ f1.gradesRes.kind = "pending"

ItemsOf(res) == {res.body.items[k] : k \in 1..Len(res.body.items)}

StoredGradesOf(sid) == {g \in {srvGrades[k] : k \in 1..Len(srvGrades)} : g.studentId = sid}

\* C5: a grade read for student B made with a valid token succeeds exactly
\* when the token is an admin's or the token's own student is B; a student
\* token for another student is answered 403 and gets no grade.
C5_ReadAuthorization ==
    \A f \in BagToSet(fetches) :
        f.gradesRes.kind = "response" =>
            LET cred == f.headers.Authorization[2]
                res  == f.gradesRes
            IN  /\ cred = "tok-admin" =>
                      (res.status = 200 /\ ItemsOf(res) = StoredGradesOf(f.studentId))
                /\ cred = "tok-student-A" =>
                      /\ (res.status = 200) <=> (f.studentId = "A")
                      /\ f.studentId = "A" => ItemsOf(res) = StoredGradesOf("A")
                      /\ f.studentId # "A" => (res.status = 403 /\ ItemsOf(res) = {})

\* Student A's token has asked for the grades of B, who has some, and got 403.
C5_Witness ==
    \E f \in BagToSet(fetches) :
        /\ f.headers.Authorization[2] = "tok-student-A"
        /\ f.studentId = "B"
        /\ StoredGradesOf("B") # {}
        /\ f.gradesRes.kind = "response"
        /\ f.gradesRes.status = 403

\* C7: once every request has settled after a delete the server performed,
\* the list shown holds no deleted grade, whatever fetches were in flight
\* when the delete was triggered.  Stated for the runs in which no request
\* failed: nothing in flight means every grade shown is still in the store.
C7_PostDeleteView ==
    (InFlight = 0 /\ ~failed) =>
        \A k \in 1..Len(grades) : grades[k].id \in GradeIds(srvGrades)

\* C10: once every request has settled, the grades shown are those of the
\* current studentId; a late response for a previous studentId never
\* overwrites them.  Stated for the runs in which no request failed.
C10_CurrentStudentShown ==
    (InFlight = 0 /\ ~failed) =>
        \A k \in 1..Len(grades) : grades[k].studentId = studentId

PositionIn(seq, g) == CHOOSE k \in 1..Len(seq) : seq[k] = g

\* out is seq reordered by date, newest first, equal dates in seq's order.
IsStableDateSort(out, seq) ==
    /\ Len(out) = Len(seq)
    /\ \A k \in 1..Len(seq) : \E j \in 1..Len(out) : out[j] = seq[k]
    /\ \A i, j \in 1..Len(out) :
          i < j =>
            /\ DateValue(out[i].date) >= DateValue(out[j].date)
            /\ DateValue(out[i].date) = DateValue(out[j].date)
                  => PositionIn(seq, out[i]) < PositionIn(seq, out[j])

\* C8: after a successful fetch the list shown is a permutation of the list
\* the server returned, newest date first, grades of equal date in the order
\* of the response.
C8_NewestFirstStable ==
    [][\A f \in BagToSet(fetches) :
          (FetchSettled(f) /\ ~FetchThrows(f) /\ fetches' = fetches (-) One(f))
              => IsStableDateSort(grades', f.gradesRes.body.items)]_vars

\* A fetch has succeeded and shows three grades in another order than the
\* store's, two of them of the same date.
C8_Witness ==
    /\ fetches = EmptyBag
    /\ ~failed
    /\ Len(grades) = 3
    /\ grades # GradesOf(srvGrades, studentId)
    /\ \E i, j \in 1..3 : i # j /\ grades[i].date = grades[j].date

(***************************************************************************)
(* Claims about the Average Engine                                         *)
(***************************************************************************)
\* The sum and the product of the values of function f over the set S
RECURSIVE SumOver(_, _)
SumOver(S, f) ==
    IF S = {} THEN 0
    ELSE LET x == CHOOSE y \in S : TRUE IN f[x] + SumOver(S \ {x}, f)

RECURSIVE ProductOver(_, _)
ProductOver(S, f) ==
    IF S = {} THEN 1
    ELSE LET x == CHOOSE y \in S : TRUE IN f[x] * ProductOver(S \ {x}, f)

StoredGrades == {srvGrades[k] : k \in 1..Len(srvGrades)}

\* C6: after any creations and deletions the overall average of a student is
\* the sum of subjectAverage * weight over the sum of weight, both taken over
\* the subjects in which the student currently has a grade; it lies between
\* the least and the greatest of these subject averages; without any grade it
\* is undefined.
C6_OverallAverage ==
    \A sid \in Students :
        LET mine(subj) == {g \in StoredGrades : g.studentId = sid /\ g.subjectId = subj}
            graded     == {k \in 1..Len(SubjectCatalog) : mine(SubjectCatalog[k].id) # {}}
            count      == [k \in graded |-> Cardinality(mine(SubjectCatalog[k].id))]
            total      == [k \in graded |->
                              SumOver(mine(SubjectCatalog[k].id), [g \in StoredGrades |-> g.value])]
            weight     == [k \in graded |-> SubjectCatalog[k].weight]
            counts     == ProductOver(graded, count)
            numerator  == SumOver(graded,
                                  [k \in graded |-> total[k] * weight[k] * (counts \div count[k])])
            weights    == SumOver(graded, weight)
            avg        == OverallAverage(srvGrades, sid)
        IN  IF graded = {} THEN ~avg.defined
            ELSE /\ avg.defined
                 /\ avg.value.den > 0
                 /\ avg.value.num * (counts * weights) = numerator * avg.value.den
                 /\ \E k \in graded : total[k] * avg.value.den <= avg.value.num * count[k]
                 /\ \E k \in graded : total[k] * avg.value.den >= avg.value.num * count[k]

\* Three grades were created and one has been deleted; student A is left
\* with Math 4 and Math 5 and no grade in Art, and the overall average is the
\* Math average 9/2.
C6_Witness ==
    /\ nextGradeId = 4
    /\ Len(srvGrades) = 2
    /\ \A k \in 1..2 : srvGrades[k].studentId = "A" /\ srvGrades[k].subjectId = "Math"
    /\ {srvGrades[1].value, srvGrades[2].value} = {4, 5}
    /\ OverallAverage(srvGrades, "A") = [defined |-> TRUE, value |-> [num |-> 9, den |-> 2]]

====
